---- MODULE Spec2Model ----
(***************************************************************************)
(* Model of the sticky-note workspace of infinite-canvas-notes:            *)
(*   - the workspace store (useWorkspace hook): notes, connections,        *)
(*     connectingFrom, maxZIndex and their handlers;                       *)
(*   - the StringConnection component, in its two variants (explicit       *)
(*     velocity, and Verlet), with its two effects, its requestAnimation-  *)
(*     Frame loop and its per-tick physics.                                *)
(*                                                                         *)
(* Numbers.  JavaScript numbers are IEEE doubles.  Coordinates are modelled*)
(* as fixed-point integers, SCALE units per pixel, and every arithmetic    *)
(* result is rounded to the nearest unit, ties away from zero (RDiv), so   *)
(* that, as for doubles, rounding commutes with negation.  A division by   *)
(* zero, which in JavaScript yields NaN or an infinity, is recorded in the *)
(* nonFinite field of the result of a tick.                                *)
(***************************************************************************)
EXTENDS Integers, Sequences, FiniteSets, TLC

(***************************************************************************)
(* Program constants.                                                      *)
(***************************************************************************)
NUM_POINTS == 12
VEL_ITERATIONS == 3
NUM_SEGMENTS == 10
ITERATIONS == 5
NOTE_SIZE == 200
THROTTLE_MS == 16

\* units per pixel, and the scale of a dimensionless ratio (diff)
SCALE == 10 * 10
FRAC == 100 * 100

\* 0.5 and 0.8 pixels per tick
GRAVITY_UP == -((5 * SCALE) \div 10)
GRAVITY == (5 * SCALE) \div 10
GRAVITY_VERLET == (8 * SCALE) \div 10

(***************************************************************************)
(* Arithmetic.                                                             *)
(***************************************************************************)
Abs(a) == IF a < 0 THEN 0 - a ELSE a

\* a / b rounded to the nearest integer, ties away from zero (b > 0)
RDiv(a, b) ==
    IF a < 0 THEN 0 - ((2 * (0 - a) + b) \div (2 * b))
    ELSE (2 * a + b) \div (2 * b)

RECURSIVE SqrtIter(_, _)
\* Newton's iteration from above: the floor of the square root of n
SqrtIter(n, r) ==
    LET q == (r + n \div r) \div 2
    IN  IF q >= r THEN r ELSE SqrtIter(n, q)

\* a power of two that is at least the square root of n (n < 2^31)
SqrtStart(n) ==
    IF n < 16 * 16 THEN 16
    ELSE IF n < 256 * 256 THEN 256
    ELSE IF n < 4096 * 4096 THEN 4096
    ELSE 65536

\* Math.sqrt, rounded to the nearest unit
Sqrt(n) ==
    IF n = 0 THEN 0
    ELSE LET r == SqrtIter(n, SqrtStart(n))
         IN  IF n - r * r > r THEN r + 1 ELSE r

\* x * 0.98 (DAMPING), x * 0.8 (STIFFNESS), x * 0.5, x * 1.2, x * 1.1
DampNone(v) == v
Damp(v) == RDiv(v * 98, 100)
Stiff(v) == RDiv(v * 8, 10)
Half(v) == RDiv(v, 2)
Slack12(v) == RDiv(v * 12, 10)
Slack11(v) == RDiv(v * 11, 10)

\* Math.sqrt((e.x - s.x)^2 + (e.y - s.y)^2)
Distance(s, e) ==
    Sqrt((e.x - s.x) * (e.x - s.x) + (e.y - s.y) * (e.y - s.y))

(***************************************************************************)
(* Particle chain: getNoteCenter and the straight-line seed.               *)
(***************************************************************************)
\* getNoteCenter: position + (width / 2, height / 2)
GetNoteCenter(note) ==
    [x |-> note.position.x + Half(note.width),
     y |-> note.position.y + Half(note.height)]

\* start + (end - start) * (i / n), i = 0 .. n
Lerp(a, b, i, n) == a + RDiv((b - a) * i, n)

\* the init loop: for (let i = 0; i < NUM_POINTS; i++)
SeedLoopShort == NUM_POINTS - 1
SeedLoop == NUM_POINTS

\* pinned: i === 0 || i === NUM_POINTS - 1 (i === NUM_SEGMENTS)
PinnedAtFirst(i, last) == i = 0
PinnedAt(i, last) == i = 0 \/ i = last

\* velocity variant: NUM_POINTS particles with zero velocity
SeedVelocity(start, end) ==
    [k \in 1..SeedLoop |->
        [x |-> Lerp(start.x, end.x, k - 1, NUM_POINTS - 1),
         y |-> Lerp(start.y, end.y, k - 1, NUM_POINTS - 1),
         vx |-> 0,
         vy |-> 0,
         pinned |-> PinnedAt(k - 1, NUM_POINTS - 1)]]

\* Verlet variant: NUM_SEGMENTS + 1 particles, old position = position
SeedVerlet(start, end) ==
    [k \in 1..(NUM_SEGMENTS + 1) |->
        [x |-> Lerp(start.x, end.x, k - 1, NUM_SEGMENTS),
         y |-> Lerp(start.y, end.y, k - 1, NUM_SEGMENTS),
         oldX |-> Lerp(start.x, end.x, k - 1, NUM_SEGMENTS),
         oldY |-> Lerp(start.y, end.y, k - 1, NUM_SEGMENTS),
         pinned |-> PinnedAt(k - 1, NUM_SEGMENTS)]]

(***************************************************************************)
(* One tick, velocity variant.  Sequences are 1-based: particle i of the   *)
(* source is element i + 1.  The loops are recursions; each step's result  *)
(* (next) is evaluated before the following step is entered.               *)
(***************************************************************************)
\* "Update pinned points"
PinEnds(p, start, end, last) ==
    [p EXCEPT ![1] = [@ EXCEPT !.x = start.x, !.y = start.y],
              ![last] = [@ EXCEPT !.x = end.x, !.y = end.y]]

\* the particles the integration loop visits: for (i = 1; i < NUM_POINTS - 1; i++)
IntegratedVelocity(k) == k - 1 >= 1 /\ k - 1 < NUM_POINTS - 1

\* gravity, damping, position update of one particle
IntegrateVelocity(pt) ==
    LET vx == Damp(pt.vx)
        vy == Damp(pt.vy + GRAVITY)
    IN  [pt EXCEPT !.vx = vx, !.vy = vy, !.x = @ + vx, !.y = @ + vy]

\* (totalDist / (NUM_POINTS - 1)) * 1.2
TargetDist(start, end) == Slack12(RDiv(Distance(start, end), NUM_POINTS - 1))

\* if (dist > 0)
PairGuardNoCheck(dist) == TRUE
PairGuard(dist) == dist > 0

\* if (!p1.pinned), if (!p2.pinned)
MovesNoCheck(pt) == TRUE
Moves(pt) == ~pt.pinned

\* The correction of pair (k, k + 1).  st = [points, nonFinite, skipped]:
\* nonFinite records a division by zero, skipped a pair the guard passed over.
CorrectVelocity(st, k, targetDist) ==
    LET p == st.points
        p1 == p[k]
        p2 == p[k + 1]
        dx == p2.x - p1.x
        dy == p2.y - p1.y
        dist == Sqrt(dx * dx + dy * dy)
    IN  IF ~PairGuard(dist) THEN [st EXCEPT !.skipped = TRUE]
        ELSE IF dist = 0 THEN [st EXCEPT !.nonFinite = TRUE]
        ELSE LET diff == RDiv((dist - targetDist) * FRAC, dist)
                 offsetX == Stiff(RDiv(dx * diff, FRAC))
                 offsetY == Stiff(RDiv(dy * diff, FRAC))
                 n1 == IF Moves(p1)
                       THEN [p1 EXCEPT !.x = @ + Half(offsetX), !.y = @ + Half(offsetY)]
                       ELSE p1
                 n2 == IF Moves(p2)
                       THEN [p2 EXCEPT !.x = @ - Half(offsetX), !.y = @ - Half(offsetY)]
                       ELSE p2
             IN  [st EXCEPT !.points = [p EXCEPT ![k] = n1, ![k + 1] = n2]]

RECURSIVE SweepVelocity(_, _, _)
\* for (i = 0; i < NUM_POINTS - 1; i++), from pair k on
SweepVelocity(st, k, targetDist) ==
    IF k - 1 < NUM_POINTS - 1
    THEN LET next == CorrectVelocity(st, k, targetDist)
         IN  IF next.nonFinite \in BOOLEAN
             THEN SweepVelocity(next, k + 1, targetDist)
             ELSE next
    ELSE st

RECURSIVE RelaxVelocity(_, _, _)
\* for (iteration = 0; iteration < 3; iteration++), from pass iteration on
RelaxVelocity(st, iteration, targetDist) ==
    IF iteration < VEL_ITERATIONS
    THEN LET next == SweepVelocity(st, 1, targetDist)
         IN  IF next.nonFinite \in BOOLEAN
             THEN RelaxVelocity(next, iteration + 1, targetDist)
             ELSE next
    ELSE st

\* the setPoints updater of the velocity variant
SimulateVelocity(prevPoints, fromNote, toNote) ==
    LET start == GetNoteCenter(fromNote)
        end == GetNoteCenter(toNote)
        pinned == PinEnds(prevPoints, start, end, NUM_POINTS)
        moved == [k \in 1..Len(pinned) |->
                    IF IntegratedVelocity(k) THEN IntegrateVelocity(pinned[k])
                    ELSE pinned[k]]
    IN  RelaxVelocity([points |-> moved, nonFinite |-> FALSE, skipped |-> FALSE], 0,
                      TargetDist(start, end))

(***************************************************************************)
(* One tick, Verlet variant.                                               *)
(***************************************************************************)
\* the particles the integration loop visits: for (i = 1; i < NUM_SEGMENTS; i++)
IntegratedVerlet(k) == k - 1 >= 1 /\ k - 1 < NUM_SEGMENTS

\* damped implicit velocity, gravity, position update of one particle
IntegrateVerlet(pt) ==
    LET vx == Damp(pt.x - pt.oldX)
        vy == Damp(pt.y - pt.oldY)
    IN  [pt EXCEPT !.oldX = pt.x, !.oldY = pt.y,
                   !.x = @ + vx, !.y = @ + vy + GRAVITY_VERLET]

\* distance / NUM_SEGMENTS * 1.1, computed when the effect subscribes
SegmentLength(fromNote, toNote) ==
    Slack11(RDiv(Distance(GetNoteCenter(fromNote), GetNoteCenter(toNote)),
                 NUM_SEGMENTS))

\* if (dist === 0) continue
PairGuardVerlet(dist) == dist # 0

\* if (!p1.pinned), if (!p2.pinned)
MovesVerlet(pt) == ~pt.pinned

\* the correction of pair (k, k + 1); st = [points, nonFinite, skipped]
CorrectVerlet(st, k, segmentLength) ==
    LET p == st.points
        p1 == p[k]
        p2 == p[k + 1]
        dx == p2.x - p1.x
        dy == p2.y - p1.y
        dist == Sqrt(dx * dx + dy * dy)
    IN  IF ~PairGuardVerlet(dist) THEN [st EXCEPT !.skipped = TRUE]
        ELSE IF dist = 0 THEN [st EXCEPT !.nonFinite = TRUE]
        ELSE LET diff == RDiv((segmentLength - dist) * FRAC, dist)
                 offsetX == Half(RDiv(dx * diff, FRAC))
                 offsetY == Half(RDiv(dy * diff, FRAC))
                 n1 == IF MovesVerlet(p1)
                       THEN [p1 EXCEPT !.x = @ - offsetX, !.y = @ - offsetY]
                       ELSE p1
                 n2 == IF MovesVerlet(p2)
                       THEN [p2 EXCEPT !.x = @ + offsetX, !.y = @ + offsetY]
                       ELSE p2
             IN  [st EXCEPT !.points = [p EXCEPT ![k] = n1, ![k + 1] = n2]]

RECURSIVE SweepVerlet(_, _, _)
\* for (i = 0; i < NUM_SEGMENTS; i++), from pair k on
SweepVerlet(st, k, segmentLength) ==
    IF k - 1 < NUM_SEGMENTS
    THEN LET next == CorrectVerlet(st, k, segmentLength)
         IN  IF next.nonFinite \in BOOLEAN
             THEN SweepVerlet(next, k + 1, segmentLength)
             ELSE next
    ELSE st

RECURSIVE RelaxVerlet(_, _, _)
\* for (iter = 0; iter < ITERATIONS; iter++), from pass iter on
RelaxVerlet(st, iter, segmentLength) ==
    IF iter < ITERATIONS
    THEN LET next == SweepVerlet(st, 1, segmentLength)
         IN  IF next.nonFinite \in BOOLEAN
             THEN RelaxVerlet(next, iter + 1, segmentLength)
             ELSE next
    ELSE st

\* the setPoints updater of the Verlet variant
SimulateVerlet(prevPoints, fromNote, toNote) ==
    LET start == GetNoteCenter(fromNote)
        end == GetNoteCenter(toNote)
        pinned == PinEnds(prevPoints, start, end, NUM_SEGMENTS + 1)
        moved == [k \in 1..Len(pinned) |->
                    IF IntegratedVerlet(k) THEN IntegrateVerlet(pinned[k])
                    ELSE pinned[k]]
    IN  RelaxVerlet([points |-> moved, nonFinite |-> FALSE, skipped |-> FALSE], 0,
                    SegmentLength(fromNote, toNote))

(***************************************************************************)
(* Both variants.                                                          *)
(***************************************************************************)
Variants == {"velocity", "verlet"}

\* the number of particles of a seeded chain
ChainLength(v) == IF v = "velocity" THEN NUM_POINTS ELSE NUM_SEGMENTS + 1

Seed(v, fromNote, toNote) ==
    IF v = "velocity"
    THEN SeedVelocity(GetNoteCenter(fromNote), GetNoteCenter(toNote))
    ELSE SeedVerlet(GetNoteCenter(fromNote), GetNoteCenter(toNote))

Simulate(v, prevPoints, fromNote, toNote) ==
    IF v = "velocity"
    THEN SimulateVelocity(prevPoints, fromNote, toNote)
    ELSE SimulateVerlet(prevPoints, fromNote, toNote)

(***************************************************************************)
(* State.                                                                  *)
(*   variant         which of the two StringConnection variants is built   *)
(*   notes, connections, connectingFrom, maxZIndex   the useWorkspace state*)
(*   usedNotes, usedConns   ids handed out by generateId (modelled fresh)  *)
(*   comps           the mounted StringConnection components, by           *)
(*                   connection id (Canvas keys them by connection.id)     *)
(*   raf             the pending requestAnimationFrame callbacks           *)
(*   now             the frame clock (ms)                                  *)
(*   life, ev, threw history: per-connection lifecycle, the last event,    *)
(*                   and whether an exception was thrown                   *)
(*   budget          operations left, to bound the exploration             *)
(*   phys            the chain of the physics-only specification           *)
(***************************************************************************)
VARIABLES variant, notes, connections, connectingFrom, maxZIndex,
          usedNotes, usedConns, comps, raf, now,
          life, ev, threw, budget, phys

storeVars == <<notes, connections, connectingFrom, maxZIndex, usedNotes, usedConns>>
compVars == <<comps, raf, now>>
histVars == <<life, ev, threw, budget>>
vars == <<variant, storeVars, compVars, histVars, phys>>

(***************************************************************************)
(* Bounds of the exploration.  A run is either a session (few notes, with  *)
(* edits, frames and a reload) or a run of the store (more notes and       *)
(* connections, with frames, no edits and no reload).                      *)
(***************************************************************************)
MaxNotes == 2
MaxConns == 1
MaxEdits == 1
MaxFrames == 2
MaxReloads == 1
MaxStoreNotes == 3
MaxStoreConns == 2
MaxPhysTicks == 280

\* where a note is created (the navbar's Add Note: the centre of the view) and
\* where it is dragged to (units); the gaps between frames (ms)
Span == 100 * SCALE
AddPositions == {[x |-> 0, y |-> 0]}
DragPositions == {[x |-> 0, y |-> 0], [x |-> Span, y |-> 0]}
FrameGaps == {8, 17}

(***************************************************************************)
(* Notes and connections.  A note object is replaced, never mutated; rev   *)
(* stands for its identity (Object.is) among the objects of the same id.   *)
(* content and color are not modelled beyond the replacement they cause.   *)
(***************************************************************************)
NoNote ==
    [id |-> 0, position |-> [x |-> 0, y |-> 0], width |-> 0, height |-> 0,
     zIndex |-> 0, rev |-> 0]

Resolved(note) == note.id # 0

\* notes.find(n => n.id === id)
Find(ns, id) ==
    LET hits == {i \in 1..Len(ns) : ns[i].id = id}
    IN  IF hits = {} THEN NoNote
        ELSE ns[CHOOSE i \in hits : \A j \in hits : i <= j]

NoteIds(ns) == {ns[i].id : i \in 1..Len(ns)}
ConnIds(cs) == {cs[i].id : i \in 1..Len(cs)}
ConnOf(cs, c) == cs[CHOOSE i \in 1..Len(cs) : cs[i].id = c]

\* prev.map(note => note.id === id ? { ...note, position } : note), and the like
Replace(ns, id, updated) ==
    [i \in 1..Len(ns) |-> IF ns[i].id = id THEN updated ELSE ns[i]]

(***************************************************************************)
(* The StringConnection component.                                         *)
(*   points, animationRef, lastUpdateRef   its state and refs              *)
(*   fromNote, toNote   the notes found by its last render                 *)
(*   initDue, simDue    effects whose deps changed in the last commit and  *)
(*                      that have not run yet (passive effects run after   *)
(*                      the commit, and before the next render)            *)
(*   cleanup            the simulation effect's last run returned a cleanup*)
(***************************************************************************)
NewComp ==
    [points |-> <<>>, animationRef |-> 0, lastUpdateRef |-> 0,
     fromNote |-> NoNote, toNote |-> NoNote,
     initDue |-> TRUE, simDue |-> TRUE, cleanup |-> FALSE]

\* deps of the init effect: [fromNote?.id, toNote?.id] (velocity),
\* [fromNote, toNote, getNoteCenter, points.length] (Verlet)
InitDepsChanged(v, oldFrom, oldTo, oldLen, newFrom, newTo, newLen) ==
    IF v = "velocity"
    THEN oldFrom.id # newFrom.id \/ oldTo.id # newTo.id
    ELSE oldFrom # newFrom \/ oldTo # newTo \/ oldLen # newLen

\* deps of the simulation effect: [fromNote, toNote, points.length]
SimDepsChanged(oldFrom, oldTo, oldLen, newFrom, newTo, newLen) ==
    oldFrom # newFrom \/ oldTo # newTo \/ oldLen # newLen

\* the init effect seeds: both notes found, and (Verlet) points.length === 0
SeedGuardAlways(v, fromNote, toNote, len) == Resolved(fromNote) /\ Resolved(toNote)
SeedGuard(v, fromNote, toNote, len) ==
    /\ Resolved(fromNote)
    /\ Resolved(toNote)
    /\ (v = "verlet" => len = 0)

\* the simulation effect subscribes:
\* if (!fromNote || !toNote || points.length === 0) return
SimGuardNone(fromNote, toNote, len) == TRUE
SimGuard(fromNote, toNote, len) ==
    Resolved(fromNote) /\ Resolved(toNote) /\ len # 0

\* the cleanup: if (animationRef.current) cancelAnimationFrame(animationRef.current)
CleanupCancelsNever(animationRef) == FALSE
CleanupCancels(animationRef) == animationRef # 0

\* if (!fromNote || !toNote || points.length === 0) return null
RendersNull(comp) ==
    ~Resolved(comp.fromNote) \/ ~Resolved(comp.toNote) \/ Len(comp.points) = 0

\* if (timestamp - lastUpdateRef.current < 16)
ThrottledNever(timestamp, lastUpdate) == FALSE
Throttled(timestamp, lastUpdate) == timestamp - lastUpdate < THROTTLE_MS

\* what a connection has been through: how often it was seeded, subscribed
\* and ticked, counted as none, once, more than once
NewLife == [seeds |-> 0, subs |-> 0, ticks |-> 0]
Bump(n) == IF n = 0 THEN 1 ELSE 2

(***************************************************************************)
(* Effects.  w = [comps, raf, life] is the part of the state that          *)
(* rendering and effects change.                                           *)
(***************************************************************************)
MinOf(S) == CHOOSE a \in S : \A b \in S : a <= b

\* requestAnimationFrame returns a handle no pending callback and no ref holds
\* (the browser never repeats one; only equality of handles is observable)
FreshHandle(w) ==
    MinOf((1..(Cardinality(w.raf) + Cardinality(DOMAIN w.comps) + 1))
          \ ({r.handle : r \in w.raf} \cup {w.comps[c].animationRef : c \in DOMAIN w.comps}))

\* cancelAnimationFrame(handle)
Cancel(pending, handle) == {r \in pending : r.handle # handle}

\* One flush of the passive effects of component c: the cleanup of the
\* simulation effect, then the init effect, then the simulation effect; then,
\* if the init effect called setPoints, the render that follows.
EffectRound(v, w, c) ==
    LET comp == w.comps[c]
        len == Len(comp.points)
        cancels == comp.simDue /\ comp.cleanup /\ CleanupCancels(comp.animationRef)
        raf1 == IF cancels THEN Cancel(w.raf, comp.animationRef) ELSE w.raf
        seeds == comp.initDue /\ SeedGuard(v, comp.fromNote, comp.toNote, len)
        subs == comp.simDue /\ SimGuard(comp.fromNote, comp.toNote, len)
        h == FreshHandle(w)
        raf2 == IF subs
                THEN raf1 \cup {[handle |-> h, conn |-> c,
                                 fromNote |-> comp.fromNote, toNote |-> comp.toNote]}
                ELSE raf1
        newPoints == IF seeds THEN Seed(v, comp.fromNote, comp.toNote) ELSE comp.points
        newLen == Len(newPoints)
        comp1 == [comp EXCEPT
                    !.animationRef = IF subs THEN h ELSE @,
                    !.cleanup = IF comp.simDue THEN subs ELSE @,
                    !.points = newPoints,
                    !.initDue = InitDepsChanged(v, comp.fromNote, comp.toNote, len,
                                                comp.fromNote, comp.toNote, newLen),
                    !.simDue = SimDepsChanged(comp.fromNote, comp.toNote, len,
                                              comp.fromNote, comp.toNote, newLen)]
    IN  [comps |-> [w.comps EXCEPT ![c] = comp1],
         raf |-> raf2,
         life |-> [w.life EXCEPT ![c] =
                     [@ EXCEPT !.seeds = IF seeds THEN Bump(@) ELSE @,
                               !.subs = IF subs THEN Bump(@) ELSE @]]]

RECURSIVE Settle(_, _, _)
\* the effects of component c, and of the renders they cause, until none is due
Settle(v, w, c) ==
    IF w.comps[c].initDue \/ w.comps[c].simDue
    THEN Settle(v, EffectRound(v, w, c), c)
    ELSE w

RECURSIVE SettleAll(_, _, _)
\* the effects of the components in todo, in the order Canvas renders them
SettleAll(v, w, todo) ==
    IF todo = {} THEN w
    ELSE SettleAll(v, Settle(v, w, MinOf(todo)), todo \ {MinOf(todo)})

\* the render of a mounted component against the notes ns
Render(v, comp, conn, ns) ==
    LET newFrom == Find(ns, conn.fromNoteId)
        newTo == Find(ns, conn.toNoteId)
        len == Len(comp.points)
    IN  [comp EXCEPT
            !.fromNote = newFrom,
            !.toNote = newTo,
            !.initDue = @ \/ InitDepsChanged(v, comp.fromNote, comp.toNote, len,
                                             newFrom, newTo, len),
            !.simDue = @ \/ SimDepsChanged(comp.fromNote, comp.toNote, len,
                                           newFrom, newTo, len)]

\* the first render of a component: every effect is due
Mount(conn, ns) ==
    [NewComp EXCEPT !.fromNote = Find(ns, conn.fromNoteId),
                    !.toNote = Find(ns, conn.toNoteId)]

\* the pending callbacks left when the components in gone unmount: each runs
\* the cleanup its simulation effect returned, if it returned one
AfterCleanups(w, gone) ==
    {r \in w.raf :
        \A c \in gone :
            ~(/\ w.comps[c].cleanup
              /\ CleanupCancels(w.comps[c].animationRef)
              /\ r.handle = w.comps[c].animationRef)}

\* A commit of the tree for the notes ns and the connections cs.  Pending
\* passive effects run before the render; components of removed connections
\* unmount, new connections mount, the others re-render.  With sync (an update
\* from a discrete event) the effects run within the commit; a mount's
\* effects are run with it, as no callback of the component can precede them.
Commit(v, w, ns, cs, sync) ==
    LET w0 == SettleAll(v, w, DOMAIN w.comps)
        old == DOMAIN w0.comps
        new == ConnIds(cs)
        w1 == [w0 EXCEPT
                 !.raf = AfterCleanups(w0, old \ new),
                 !.comps = [c \in new |->
                              IF c \in old
                              THEN Render(v, w0.comps[c], ConnOf(cs, c), ns)
                              ELSE Mount(ConnOf(cs, c), ns)],
                 !.life = [c \in DOMAIN w0.life \cup new |->
                              IF c \in DOMAIN w0.life THEN w0.life[c] ELSE NewLife]]
    IN  SettleAll(v, w1, IF sync THEN new ELSE new \ old)

World == [comps |-> comps, raf |-> raf, life |-> life]

SetWorld(w) ==
    /\ comps' = w.comps
    /\ raf' = w.raf
    /\ life' = w.life

\* the lifecycle state of a connection of this page session
Phase(c) ==
    IF c \notin DOMAIN life THEN "NONE"
    ELSE IF c \notin DOMAIN comps THEN "DISPOSED"
    ELSE IF \E r \in raf : r.conn = c THEN "ACTIVE"
    ELSE IF Len(comps[c].points) = 0 THEN "UNINITIALIZED"
    ELSE "IDLE"

(***************************************************************************)
(* The last event, for the properties that speak of what a step did: its   *)
(* kind and subject; for a tick, the centres its closure read (start, end) *)
(* and those of the last render (committedStart, committedEnd), the length *)
(* of the chain it received, whether effects of that render were still due *)
(* (stale), and what its corrections met; for a removal,                   *)
(* the connections it dropped.                                             *)
(***************************************************************************)
Origin == [x |-> 0, y |-> 0]

Event(kind, id) ==
    [kind |-> kind, id |-> id, start |-> Origin, end |-> Origin,
     committedStart |-> Origin, committedEnd |-> Origin,
     preLen |-> 0, stale |-> FALSE, nonFinite |-> FALSE, skipped |-> FALSE,
     dropped |-> {}]

\* budget counts what is left of each bounded kind of step
Spend(what) == budget' = [budget EXCEPT ![what] = @ - 1]

EmptyWorld ==
    [comps |-> [c \in {} |-> NewComp], raf |-> {},
     life |-> [c \in {} |-> NewLife]]

(***************************************************************************)
(* The store's handlers (useWorkspace), each with the commit that follows. *)
(* generateId is modelled as handing out an id never used before.          *)
(***************************************************************************)
\* While a connection is being drawn every note but its source lies under the
\* "Click to connect" overlay: a mouse down on it completes the connection and
\* nothing else of the note can be reached.
Covered(id) == connectingFrom # 0 /\ connectingFrom # id

AddNote(position) ==
    /\ budget.notes > 0
    /\ LET newNote == [id |-> usedNotes + 1, position |-> position,
                       width |-> NOTE_SIZE * SCALE, height |-> NOTE_SIZE * SCALE,
                       zIndex |-> maxZIndex + 1, rev |-> 0]
       IN  /\ notes' = Append(notes, newNote)
           /\ SetWorld(Commit(variant, World, Append(notes, newNote), connections, TRUE))
    /\ maxZIndex' = maxZIndex + 1
    /\ usedNotes' = usedNotes + 1
    /\ Spend("notes")
    /\ ev' = Event("addNote", usedNotes + 1)
    /\ UNCHANGED <<variant, connections, connectingFrom, usedConns, now, threw, phys>>

\* the update of a drag (a window mousemove listener): its passive effects
\* are not run within the commit
UpdateNotePosition(id, position) ==
    /\ budget.edits > 0
    /\ id \in NoteIds(notes)
    /\ ~Covered(id)
    /\ LET moved == [Find(notes, id) EXCEPT !.position = position, !.rev = @ + 1]
       IN  /\ notes' = Replace(notes, id, moved)
           /\ SetWorld(Commit(variant, World, Replace(notes, id, moved), connections, FALSE))
    /\ Spend("edits")
    /\ ev' = Event("updateNotePosition", id)
    /\ UNCHANGED <<variant, connections, connectingFrom, maxZIndex, usedNotes, usedConns,
                   now, threw, phys>>

\* updateNoteContent and updateNoteColor (an input or a click): the note
\* object is replaced
Edited(note) == [note EXCEPT !.rev = @ + 1]

EditNote(id) ==
    /\ budget.edits > 0
    /\ id \in NoteIds(notes)
    /\ ~Covered(id)
    /\ LET edited == Edited(Find(notes, id))
       IN  /\ notes' = Replace(notes, id, edited)
           /\ SetWorld(Commit(variant, World, Replace(notes, id, edited), connections, TRUE))
    /\ Spend("edits")
    /\ ev' = Event("editNote", id)
    /\ UNCHANGED <<variant, connections, connectingFrom, maxZIndex, usedNotes, usedConns,
                   now, threw, phys>>

BringToFront(id) ==
    /\ budget.edits > 0
    /\ id \in NoteIds(notes)
    /\ ~Covered(id)
    /\ LET raised == [Find(notes, id) EXCEPT !.zIndex = maxZIndex + 1, !.rev = @ + 1]
       IN  /\ notes' = Replace(notes, id, raised)
           /\ SetWorld(Commit(variant, World, Replace(notes, id, raised), connections, TRUE))
    /\ maxZIndex' = maxZIndex + 1
    /\ Spend("edits")
    /\ ev' = Event("bringToFront", id)
    /\ UNCHANGED <<variant, connections, connectingFrom, usedNotes, usedConns,
                   now, threw, phys>>

\* the connections deleteNote keeps
KeptAll(conn, id) == TRUE
Kept(conn, id) == conn.fromNoteId # id /\ conn.toNoteId # id

DeleteNote(id) ==
    /\ id \in NoteIds(notes)
    /\ ~Covered(id)
    /\ LET ns == SelectSeq(notes, LAMBDA note : note.id # id)
           cs == SelectSeq(connections, LAMBDA conn : Kept(conn, id))
       IN  /\ notes' = ns
           /\ connections' = cs
           /\ SetWorld(Commit(variant, World, ns, cs, TRUE))
    /\ ev' = [Event("deleteNote", id) EXCEPT
                 !.dropped = {connections[i].id :
                                i \in {j \in 1..Len(connections) :
                                         ~Kept(connections[j], id)}}]
    /\ UNCHANGED <<variant, connectingFrom, maxZIndex, usedNotes, usedConns,
                   now, threw, budget, phys>>

\* the link button of a note
StartConnection(noteId) ==
    /\ noteId \in NoteIds(notes)
    /\ ~Covered(noteId)
    /\ connectingFrom # noteId
    /\ connectingFrom' = noteId
    /\ SetWorld(Commit(variant, World, notes, connections, TRUE))
    /\ ev' = Event("startConnection", noteId)
    /\ UNCHANGED <<variant, notes, connections, maxZIndex, usedNotes, usedConns,
                   now, threw, budget, phys>>

\* connections.some(...): a connection between the two notes, in either direction
ExistsOneWay(cs, a, b) ==
    \E i \in 1..Len(cs) : cs[i].fromNoteId = a /\ cs[i].toNoteId = b
Exists(cs, a, b) ==
    \E i \in 1..Len(cs) :
        \/ cs[i].fromNoteId = a /\ cs[i].toNoteId = b
        \/ cs[i].fromNoteId = b /\ cs[i].toNoteId = a

\* a mouse down on a covered note
CompleteConnection(toNoteId) ==
    /\ toNoteId \in NoteIds(notes)
    /\ Covered(toNoteId)
    /\ LET adds == /\ connectingFrom # 0
                   /\ connectingFrom # toNoteId
                   /\ ~Exists(connections, connectingFrom, toNoteId)
           newConnection == [id |-> usedConns + 1, fromNoteId |-> connectingFrom,
                             toNoteId |-> toNoteId]
           cs == IF adds THEN Append(connections, newConnection) ELSE connections
       IN  /\ adds => budget.conns > 0
           /\ connections' = cs
           /\ usedConns' = IF adds THEN usedConns + 1 ELSE usedConns
           /\ budget' = [budget EXCEPT !.conns = IF adds THEN @ - 1 ELSE @]
           /\ SetWorld(Commit(variant, World, notes, cs, TRUE))
    /\ connectingFrom' = 0
    /\ ev' = Event("completeConnection", toNoteId)
    /\ UNCHANGED <<variant, notes, maxZIndex, usedNotes, now, threw, phys>>

\* a mouse down on the canvas while connecting
CancelConnection ==
    /\ connectingFrom # 0
    /\ connectingFrom' = 0
    /\ SetWorld(Commit(variant, World, notes, connections, TRUE))
    /\ ev' = Event("cancelConnection", 0)
    /\ UNCHANGED <<variant, notes, connections, maxZIndex, usedNotes, usedConns,
                   now, threw, budget, phys>>

\* a click on the rendered string (the mouse down of a click made while
\* connecting is a mouse down on the canvas: CancelConnection)
DeleteConnection(id) ==
    /\ id \in ConnIds(connections)
    /\ connectingFrom = 0
    /\ ~RendersNull(comps[id])
    /\ LET cs == SelectSeq(connections, LAMBDA conn : conn.id # id)
       IN  /\ connections' = cs
           /\ SetWorld(Commit(variant, World, notes, cs, TRUE))
    /\ ev' = [Event("deleteConnection", id) EXCEPT !.dropped = {id}]
    /\ UNCHANGED <<variant, notes, connectingFrom, maxZIndex, usedNotes, usedConns,
                   now, threw, budget, phys>>

\* A page reload: the document and its callbacks are gone; notes and
\* connections are restored from localStorage (the load effect), every other
\* piece of state starts over.
Reload ==
    /\ budget.reloads > 0
    /\ LET ns == [i \in 1..Len(notes) |-> [notes[i] EXCEPT !.rev = 0]]
       IN  /\ notes' = ns
           /\ SetWorld(Commit(variant, EmptyWorld, ns, connections, TRUE))
    /\ maxZIndex' = 1
    /\ connectingFrom' = 0
    /\ now' = 100
    /\ Spend("reloads")
    /\ ev' = Event("reload", 0)
    /\ UNCHANGED <<variant, connections, usedNotes, usedConns, threw, phys>>

(***************************************************************************)
(* The frame loop.                                                         *)
(***************************************************************************)
\* The passive effects of the last commit run (React's flushPassiveEffects).
FlushEffects ==
    /\ \E c \in DOMAIN comps : comps[c].initDue \/ comps[c].simDue
    /\ SetWorld(SettleAll(variant, World, DOMAIN comps))
    /\ ev' = Event("flushEffects", 0)
    /\ UNCHANGED <<variant, storeVars, now, threw, budget, phys>>

\* The notes after a tick.  simulate reads the notes of its closure through
\* getNoteCenter, which returns a new object, and writes to its particles only.
NotesAfterTickPinned(ns, toNote, points) ==
    Replace(ns, toNote.id,
            [toNote EXCEPT !.position = [x |-> points[Len(points)].x,
                                         y |-> points[Len(points)].y]])
NotesAfterTick(ns, toNote, points) == ns

\* The refs and state a callback of connection c writes are those of its own
\* component instance (useState and useRef of the instance keyed c).
OwnsAll(c, d) == TRUE
Owns(c, d) == c = d

\* What callback r (simulate) does when it runs at timestamp: nothing but a
\* new request when its component is gone or the frame is throttled, else a
\* tick.  A tick is the callback's setPoints updater together with the render
\* that applies it; effects still pending run before that render.  The updater
\* throws a TypeError when an index or a note it reads is undefined.
Outcome(w, r, timestamp) ==
    LET c == r.conn
    IN  IF c \notin DOMAIN w.comps THEN "orphan"
        ELSE IF variant = "verlet" /\ Throttled(timestamp, w.comps[c].lastUpdateRef)
        THEN "throttled"
        ELSE IF /\ Len(SettleAll(variant, w, DOMAIN w.comps).comps[c].points)
                      >= ChainLength(variant)
                /\ Resolved(r.fromNote)
                /\ Resolved(r.toNote)
        THEN "tick"
        ELSE "throw"

\* the components, pending callbacks and counters after callback r has run at
\* timestamp
AfterFrame(w, r, timestamp) ==
    LET c == r.conn
        h == FreshHandle(w)
        again == (w.raf \ {r}) \cup {[r EXCEPT !.handle = h]}
    IN  IF c \notin DOMAIN w.comps
        THEN [w EXCEPT !.raf = again]
        ELSE IF variant = "verlet" /\ Throttled(timestamp, w.comps[c].lastUpdateRef)
        THEN [w EXCEPT
                !.raf = again,
                !.comps = [d \in DOMAIN w.comps |->
                             IF Owns(c, d) THEN [w.comps[d] EXCEPT !.animationRef = h]
                             ELSE w.comps[d]]]
        ELSE LET w1 == [w EXCEPT
                          !.raf = again,
                          !.comps = [d \in DOMAIN w.comps |->
                                       IF Owns(c, d)
                                       THEN [w.comps[d] EXCEPT
                                               !.animationRef = h,
                                               !.lastUpdateRef =
                                                   IF variant = "verlet"
                                                   THEN timestamp ELSE @]
                                       ELSE w.comps[d]]]
                 w2 == SettleAll(variant, w1, DOMAIN w.comps)
                 prevPoints == w2.comps[c].points
             IN  IF /\ Len(prevPoints) >= ChainLength(variant)
                    /\ Resolved(r.fromNote)
                    /\ Resolved(r.toNote)
                 THEN [w2 EXCEPT
                         !.comps[c].points =
                             Simulate(variant, prevPoints, r.fromNote, r.toNote).points,
                         !.life[c].ticks = Bump(@)]
                 ELSE w2

\* The browser runs the pending callback r, gap ms after the last frame; the
\* clock is kept only where the callback reads its timestamp.
Frame(r, gap) ==
    /\ ~threw
    /\ budget.frames > 0
    /\ r \in raf
    /\ now' = IF variant = "verlet" THEN now + gap ELSE now
    /\ Spend("frames")
    /\ \E kind \in {Outcome(World, r, now + gap)} :
       \E after \in {AfterFrame(World, r, now + gap)} :
          /\ SetWorld(after)
          /\ threw' = (kind = "throw")
          /\ IF kind = "tick"
             THEN \E prevPoints \in {SettleAll(variant, World, DOMAIN comps)
                                         .comps[r.conn].points} :
                  \E res \in {Simulate(variant, prevPoints, r.fromNote, r.toNote)} :
                     /\ ev' = [kind |-> "tick", id |-> r.conn,
                               start |-> GetNoteCenter(r.fromNote),
                               end |-> GetNoteCenter(r.toNote),
                               committedStart |-> GetNoteCenter(comps[r.conn].fromNote),
                               committedEnd |-> GetNoteCenter(comps[r.conn].toNote),
                               preLen |-> Len(prevPoints),
                               stale |-> comps[r.conn].initDue \/ comps[r.conn].simDue,
                               nonFinite |-> res.nonFinite,
                               skipped |-> res.skipped,
                               dropped |-> {}]
                     /\ notes' = NotesAfterTick(notes, r.toNote, res.points)
             ELSE /\ ev' = Event(kind, r.conn)
                  /\ UNCHANGED notes
    /\ UNCHANGED <<variant, connections, connectingFrom, maxZIndex, usedNotes, usedConns,
                   phys>>

Budgets ==
    {[notes |-> MaxNotes, conns |-> MaxConns, edits |-> MaxEdits,
      frames |-> MaxFrames, reloads |-> MaxReloads],
     [notes |-> MaxStoreNotes, conns |-> MaxStoreConns, edits |-> 0,
      frames |-> MaxFrames, reloads |-> 0]}

(***************************************************************************)
(* The workspace: the store, the components and the frame loop.            *)
(***************************************************************************)
PhysIdle ==
    [fromNote |-> NoNote, toNote |-> NoNote, points |-> <<>>, before |-> <<>>,
     ticks |-> 0, settled |-> FALSE, nonFinite |-> FALSE, skipped |-> FALSE]

InitWorkspace ==
    /\ notes = <<>>
    /\ connections = <<>>
    /\ connectingFrom = 0
    /\ maxZIndex = 1
    /\ usedNotes = 0
    /\ usedConns = 0
    /\ comps = EmptyWorld.comps
    /\ raf = {}
    /\ now = 100
    /\ life = EmptyWorld.life
    /\ ev = Event("init", 0)
    /\ threw = FALSE

Init ==
    /\ variant \in Variants
    /\ InitWorkspace
    /\ budget \in Budgets
    /\ phys = PhysIdle

Next ==
    \/ \E position \in AddPositions : AddNote(position)
    \/ \E id \in NoteIds(notes), position \in DragPositions :
          UpdateNotePosition(id, position)
    \/ \E id \in NoteIds(notes) : EditNote(id)
    \/ \E id \in NoteIds(notes) : BringToFront(id)
    \/ \E id \in NoteIds(notes) : DeleteNote(id)
    \/ \E id \in NoteIds(notes) : StartConnection(id)
    \/ \E id \in NoteIds(notes) : CompleteConnection(id)
    \/ CancelConnection
    \/ \E id \in ConnIds(connections) : DeleteConnection(id)
    \/ Reload
    \/ FlushEffects
    \/ \E r \in raf, gap \in FrameGaps : Frame(r, gap)

Spec == Init /\ [][Next]_vars

(***************************************************************************)
(* The physics alone: one chain between two stationary notes, seeded as a  *)
(* straight line and ticked.                                               *)
(***************************************************************************)
PhysNote(position) ==
    [id |-> 1, position |-> position, width |-> NOTE_SIZE * SCALE,
     height |-> NOTE_SIZE * SCALE, zIndex |-> 1, rev |-> 0]

\* where the second note lies: on the first, level with it, or lower
PhysEnds ==
    {[x |-> 0, y |-> 0], [x |-> Span \div 10, y |-> 0], [x |-> Span, y |-> 0],
     [x |-> Span, y |-> Span \div 2]}

PhysInit ==
    /\ variant \in Variants
    /\ InitWorkspace
    /\ budget = [notes |-> 0, conns |-> 0, edits |-> 0, frames |-> 0, reloads |-> 0]
    /\ \E position \in PhysEnds :
          phys = [PhysIdle EXCEPT
                    !.fromNote = PhysNote(Origin),
                    !.toNote = PhysNote(position),
                    !.points = Seed(variant, PhysNote(Origin), PhysNote(position))]

PhysTick ==
    /\ phys.ticks < MaxPhysTicks
    /\ LET res == Simulate(variant, phys.points, phys.fromNote, phys.toNote)
       IN  phys' = [phys EXCEPT
                      !.points = res.points,
                      !.before = phys.points,
                      !.ticks = @ + 1,
                      !.settled = (res.points = phys.points),
                      !.nonFinite = @ \/ res.nonFinite,
                      !.skipped = @ \/ res.skipped]
    /\ UNCHANGED <<variant, storeVars, compVars, histVars>>

PhysNext == PhysTick

PhysSpec == PhysInit /\ [][PhysNext]_vars

(***************************************************************************)
(* Properties.                                                             *)
(***************************************************************************)
At(pt, pos) == pt.x = pos.x /\ pt.y = pos.y

\* the connection c of the store has an end that is not a note
Dangling(c) ==
    LET conn == ConnOf(connections, c)
    IN  conn.fromNoteId \notin NoteIds(notes) \/ conn.toNoteId \notin NoteIds(notes)

\* C1: after every tick, in both variants, the first particle is exactly at
\* the centre of the from note and the last particle exactly at the centre of
\* the to note that the tick read: integration and relaxation leave the two
\* pinned particles where the tick pinned them.
PinInvariant ==
    ev.kind = "tick" =>
        LET pts == comps[ev.id].points
        IN  /\ At(pts[1], ev.start)
            /\ At(pts[Len(pts)], ev.end)

\* a second tick of a chain between two notes that lie apart
PinWitness ==
    /\ ev.kind = "tick"
    /\ ev.start # ev.end
    /\ life[ev.id].ticks = 2
    /\ At(comps[ev.id].points[1], ev.start)
    /\ \E i \in 2..(ChainLength(variant) - 1) : comps[ev.id].points[i].y # ev.start.y

\* C2: a mounted connection whose notes resolve has been seeded exactly once,
\* whatever ticks, re-renders, moves and edits followed; no connection is
\* seeded twice.
SeededOnce ==
    \A c \in DOMAIN comps :
        /\ life[c].seeds <= 1
        /\ (Resolved(comps[c].fromNote) /\ Resolved(comps[c].toNote)) => life[c].seeds = 1

\* a seeded connection that has ticked and, after an edit of one of its notes,
\* subscribed again
SeededOnceWitness ==
    \E c \in DOMAIN comps :
        /\ life[c].seeds = 1
        /\ life[c].ticks >= 1
        /\ life[c].subs = 2
        /\ comps[c].fromNote.rev + comps[c].toNote.rev > 0

\* C3: no callback of an unmounted connection is pending, and no callback of
\* an unmounted connection ever ran.
NoCallbackAfterUnmount ==
    /\ \A r \in raf : r.conn \in DOMAIN comps
    /\ ev.kind # "orphan"

\* a connection unmounted after it ticked and subscribed again
UnmountWitness ==
    \E c \in DOMAIN life :
        /\ c \notin DOMAIN comps
        /\ life[c].ticks >= 1
        /\ life[c].subs = 2
        /\ raf = {}

\* C4: a connection with an end that is not a note is mounted, renders null,
\* has no pending callback and is not ticked; no exception was thrown.
MissingEndpointIdle ==
    /\ ~threw
    /\ \A c \in ConnIds(connections) :
          Dangling(c) =>
              /\ c \in DOMAIN comps
              /\ RendersNull(comps[c])
              /\ \A r \in raf : r.conn # c
              /\ life[c].ticks = 0
              /\ ev.kind \in {"tick", "throttled", "throw"} => ev.id # c

\* a connection with a missing end, next to a connection that subscribed
MissingEndpointWitness ==
    \E c \in ConnIds(connections) :
        /\ Dangling(c)
        /\ RendersNull(comps[c])
        /\ \E d \in ConnIds(connections) : d # c /\ life[d].subs >= 1

\* the transitions of a connection's simulation the lifecycle names, with the
\* creation of the connection
Lifecycle ==
    {<<"NONE", "UNINITIALIZED">>, <<"NONE", "ACTIVE">>,
     <<"UNINITIALIZED", "ACTIVE">>, <<"ACTIVE", "DISPOSED">>}

Step(c) == <<Phase(c), Phase(c)'>>

\* C5: within a page session the simulation of a connection only goes from
\* UNINITIALIZED to ACTIVE and from ACTIVE to DISPOSED.
LifecycleOnly ==
    [][ev'.kind # "reload" =>
          \A c \in DOMAIN life' : Phase(c)' # Phase(c) => Step(c) \in Lifecycle]_vars

\* C5, with the one transition the lifecycle does not name: a connection that
\* never initialized is removed
LifecycleWithAbandon ==
    [][ev'.kind # "reload" =>
          \A c \in DOMAIN life' :
              Phase(c)' # Phase(c) =>
                  Step(c) \in Lifecycle \cup {<<"UNINITIALIZED", "DISPOSED">>}]_vars

\* a connection removed before it ever initialized
AbandonWitness ==
    \E c \in DOMAIN life :
        /\ Phase(c) = "DISPOSED"
        /\ life[c].seeds = 0
        /\ ev.kind = "deleteNote"
        /\ c \in ev.dropped

\* C6: every tick pins the chain to the centres of the notes of the last
\* committed render.
TickReadsCommitted ==
    ev.kind = "tick" =>
        /\ ev.start = ev.committedStart
        /\ ev.end = ev.committedEnd

\* C6, for the ticks that run once the effects of the last commit have run:
\* a tick that finds no effect pending reads the committed centres, and pins
\* the chain to them
TickReadsFlushed ==
    (ev.kind = "tick" /\ ~ev.stale) =>
        /\ ev.start = ev.committedStart
        /\ ev.end = ev.committedEnd
        /\ At(comps[ev.id].points[1], ev.committedStart)

\* a tick that pinned the chain to a centre the note had left
StaleTickWitness ==
    /\ ev.kind = "tick"
    /\ ev.stale
    /\ ev.end # ev.committedEnd
    /\ At(comps[ev.id].points[ChainLength(variant)], ev.end)
    /\ GetNoteCenter(comps[ev.id].toNote) = ev.committedEnd

\* C7: a step of deleteNote(id) removes the note id and exactly the
\* connections with an end at id, leaves every other note and connection as
\* it was, and leaves no component and no callback for a removed connection.
DeleteNoteRemoves ==
    [][ev'.kind = "deleteNote" =>
          /\ ev'.id \in NoteIds(notes)
          /\ notes' = SelectSeq(notes, LAMBDA note : note.id # ev'.id)
          /\ connections' =
                SelectSeq(connections,
                          LAMBDA conn : conn.fromNoteId # ev'.id /\ conn.toNoteId # ev'.id)
          /\ DOMAIN comps' = ConnIds(connections')
          /\ \A r \in raf' : r.conn \in ConnIds(connections')]_vars

\* a deleteNote that dropped a connection and kept another
DeleteNoteWitness ==
    /\ ev.kind = "deleteNote"
    /\ ev.dropped # {}
    /\ connections # <<>>
    /\ \A c \in ev.dropped : c \notin DOMAIN comps
    /\ \E c \in ConnIds(connections) : life[c].subs >= 1

\* the centres of the two notes of the physics-only chain
PhysStart == GetNoteCenter(phys.fromNote)
PhysEnd == GetNoteCenter(phys.toNote)
Interior == 2..(ChainLength(variant) - 1)
\* the middle interior particle(s): one of an odd chain, two of an even one
Middle == {(ChainLength(variant) + 1) \div 2, (ChainLength(variant) + 2) \div 2}

\* C8: no pair correction divides by a zero distance: no tick of a chain,
\* whether its ends coincide or lie apart, produces a coordinate that is not a
\* finite number.
NoZeroDivision == ~phys.nonFinite

\* a chain between coincident centres that was ticked, and whose passes
\* skipped pairs of coincident particles
CoincidentWitness ==
    /\ PhysStart = PhysEnd
    /\ phys.ticks = MaxPhysTicks
    /\ phys.skipped
    /\ ~phys.nonFinite

\* C9: no exception is thrown, and every tick receives a chain of the full
\* number of particles.
TickOnFullChain ==
    /\ ~threw
    /\ ev.kind = "tick" => ev.preLen = ChainLength(variant)

\* a tick that ran while an effect of the last render was still pending
FullChainWitness ==
    /\ ev.kind = "tick"
    /\ ev.stale
    /\ ev.preLen = ChainLength(variant)
    /\ Len(comps[ev.id].points) = ChainLength(variant)

\* C10: once the chain between two stationary centres of the same height has
\* settled, its middle particles lie strictly below the centres (greater y)
\* and no interior particle lies above them.
SagsDown ==
    (phys.settled /\ PhysStart.y = PhysEnd.y) =>
        /\ \A i \in Middle : phys.points[i].y > PhysStart.y
        /\ \A i \in Interior : phys.points[i].y >= PhysStart.y

\* a settled chain between two centres of the same height that lie apart
SagWitness ==
    /\ phys.settled
    /\ PhysStart.y = PhysEnd.y
    /\ PhysStart.x # PhysEnd.x
    /\ \A i \in Middle : phys.points[i].y > PhysStart.y

\* a tenth of a pixel: what separates a difference from rounding
Tolerance == SCALE \div 10

\* the target length of a segment of the physics-only chain
PhysTarget ==
    IF variant = "velocity" THEN TargetDist(PhysStart, PhysEnd)
    ELSE SegmentLength(phys.fromNote, phys.toNote)

\* particle i and its mirror image are level and equally far from the
\* vertical through the midpoint of the centres, to a tenth of a pixel
Mirrored(i) ==
    LET a == phys.points[i]
        b == phys.points[ChainLength(variant) + 1 - i]
    IN  /\ Abs(a.y - b.y) <= Tolerance
        /\ Abs((a.x + b.x) - (PhysStart.x + PhysEnd.x)) <= Tolerance

\* C11: after every tick of a chain between stationary centres of the same
\* height, the chain is mirror-symmetric about the vertical through the
\* midpoint of the centres.
MirrorSymmetric ==
    (phys.ticks >= 1 /\ PhysStart.y = PhysEnd.y /\ PhysStart.x # PhysEnd.x) =>
        \A i \in 1..ChainLength(variant) : Mirrored(i)

\* a settled chain between level centres that is not mirror-symmetric
AsymmetricWitness ==
    /\ phys.settled
    /\ PhysStart.y = PhysEnd.y
    /\ PhysStart.x # PhysEnd.x
    /\ \E i \in Interior : ~Mirrored(i)

\* the length of segment i of the physics-only chain
SegmentOf(i) == Distance(phys.points[i], phys.points[i + 1])

\* the ticks after which the segment lengths are to have converged
ConvergedAfter == 6 * 10

\* C12: from tick 60 on, every segment of a chain between stationary centres
\* that lie apart is within 5% of the target length.
SegmentsConverge ==
    (phys.ticks >= ConvergedAfter /\ PhysStart # PhysEnd) =>
        \A i \in 1..(ChainLength(variant) - 1) :
            20 * Abs(SegmentOf(i) - PhysTarget) < PhysTarget

\* a settled chain with a segment more than 5% off the target length
StretchedWitness ==
    /\ phys.settled
    /\ phys.ticks >= ConvergedAfter
    /\ PhysStart # PhysEnd
    /\ \E i \in 1..(ChainLength(variant) - 1) :
          20 * Abs(SegmentOf(i) - PhysTarget) >= PhysTarget

\* the steps a mounted StringConnection takes by itself: its deferred effects,
\* and its frame callback in each of its outcomes
OwnSteps == {"flushEffects", "tick", "throttled", "orphan", "throw"}

\* C13: initialization, ticks, throttled frames and rendering of a connection
\* leave the notes and the connections as they were, field for field; the one
\* outward effect is the click on its hit region, which removes exactly the
\* connection with its own id and no note.
FrameEffect ==
    [][/\ ev'.kind \in OwnSteps => notes' = notes /\ connections' = connections
       /\ ev'.kind = "deleteConnection" =>
              /\ notes' = notes
              /\ ev'.id \in ConnIds(connections)
              /\ connections' = SelectSeq(connections, LAMBDA conn : conn.id # ev'.id)]_vars

\* a tick has moved the chain of a connection between two notes that are apart
FrameEffectWitness ==
    /\ ev.kind = "tick"
    /\ ev.start # ev.end
    /\ ev.id \in DOMAIN comps
    /\ Len(comps[ev.id].points) = ChainLength(variant)
    /\ \E i \in 2..(ChainLength(variant) - 1) :
           comps[ev.id].points[i].y > ev.start.y /\ comps[ev.id].points[i].y > ev.end.y
    /\ Len(notes) = 2
    /\ Len(connections) = 1

\* the pending callbacks of connection d
Pending(rs, d) == {r \in rs : r.conn = d}

\* what a component holds for its chain: the particles, the handle of its
\* pending callback and the throttle timestamp
Chain(comp) == <<comp.points, comp.animationRef, comp.lastUpdateRef>>

\* the connections other than the one the last step was about, with no effect
\* of their own due in that step
Others ==
    {d \in DOMAIN comps \cap DOMAIN comps' :
        /\ ~comps[d].initDue
        /\ ~comps[d].simDue
        /\ ev'.kind \in {"tick", "throttled", "orphan", "throw", "deleteConnection"}
               => d # ev'.id}

\* two callbacks of different connections run in the same frame, in both orders
BothOrders(r1, r2, timestamp) ==
    <<AfterFrame(AfterFrame(World, r1, timestamp), r2, timestamp),
      AfterFrame(AfterFrame(World, r2, timestamp), r1, timestamp)>>

\* C14: a tick, a throttled frame, the initialization (the connection is
\* completed and mounts) or the teardown (it is deleted) of one connection
\* leaves the chain, the pending callback and the throttle timestamp of every
\* other connection unchanged, and two callbacks of different connections run
\* in one frame give the same chains and timestamps in either order.
ChainIndependence ==
    /\ [][ev'.kind \in {"tick", "throttled", "orphan", "throw", "completeConnection",
                        "deleteConnection"}
             => \A d \in Others :
                   /\ Chain(comps'[d]) = Chain(comps[d])
                   /\ Pending(raf', d) = Pending(raf, d)]_vars
    /\ [](\A r1, r2 \in raf : \A gap \in FrameGaps :
             (~threw /\ r1.conn < r2.conn)
                => LET both == BothOrders(r1, r2, now + gap)
                   IN  \A d \in DOMAIN comps :
                          /\ both[1].comps[d].points = both[2].comps[d].points
                          /\ both[1].comps[d].lastUpdateRef = both[2].comps[d].lastUpdateRef)

\* a connection has ticked while another one, seeded and with its own callback
\* pending, stayed as it was
IndependenceWitness ==
    /\ ev.kind = "tick"
    /\ \E d \in DOMAIN comps :
           /\ d # ev.id
           /\ Len(comps[d].points) = ChainLength(variant)
           /\ Pending(raf, d) # {}
           /\ comps[d].points # comps[ev.id].points

\* C15: in every reachable state the chain of a connection is empty or has
\* exactly 12 particles (velocity variant) or NUM_SEGMENTS + 1 = 11 (Verlet
\* variant), and its pinned flag is true for the first and the last particle
\* and for no other; ticks, renders and note changes keep both.
ChainShape ==
    \A c \in DOMAIN comps :
       LET chain == comps[c].points
       IN  /\ Len(chain) \in {0, IF variant = "velocity" THEN 12 ELSE NUM_SEGMENTS + 1}
           /\ \A i \in 1..Len(chain) : chain[i].pinned <=> (i = 1 \/ i = Len(chain))

\* a chain that was seeded, ticked, and ticked again after a note was moved
ChainShapeWitness ==
    \E c \in DOMAIN comps :
       /\ Len(comps[c].points) = ChainLength(variant)
       /\ life[c].seeds >= 1
       /\ life[c].ticks >= 2
       /\ \E i \in 1..Len(notes) : notes[i].position # Origin
       /\ ev.kind = "tick"
       /\ ev.id = c

\* the integration step of a variant, and the gravity it adds
Integrate(v, pt) == IF v = "velocity" THEN IntegrateVelocity(pt) ELSE IntegrateVerlet(pt)
GravityOf(v) == IF v = "velocity" THEN GRAVITY ELSE GRAVITY_VERLET

\* C16: in every tick after the first, the integration step displaces each
\* interior particle by 0.98 times the particle's whole change of position in
\* the previous tick (integration and corrections), plus the gravity constant
\* on y only.  phys.before holds the chain as the previous tick received it,
\* phys.points the chain this tick receives; the pinning that precedes the
\* integration leaves the interior particles as they are.
IntegrationFollowsMotion ==
    [][(phys'.ticks = phys.ticks + 1 /\ phys.ticks >= 1)
         => \A i \in Interior :
               LET pt == phys.points[i]
                   moved == Integrate(variant, pt)
               IN  /\ Abs((moved.x - pt.x) - Damp(pt.x - phys.before[i].x)) <= Tolerance
                   /\ Abs((moved.y - pt.y)
                            - (Damp(pt.y - phys.before[i].y) + GravityOf(variant)))
                         <= Tolerance]_vars

\* velocity variant: after a tick the stored velocity of an interior particle
\* is not the distance the particle moved in that tick
VelocityDriftWitness ==
    /\ variant = "velocity"
    /\ phys.ticks >= 1
    /\ \E i \in Interior :
           Abs(phys.points[i].vy - (phys.points[i].y - phys.before[i].y)) > Tolerance

\* the chain after one correction of pair (k, k + 1) of the chain at hand
Corrected(k) ==
    LET st == [points |-> phys.points, nonFinite |-> FALSE, skipped |-> FALSE]
    IN  IF variant = "velocity" THEN CorrectVelocity(st, k, PhysTarget).points
        ELSE CorrectVerlet(st, k, PhysTarget).points

BothFree(k) == ~phys.points[k].pinned /\ ~phys.points[k + 1].pinned

\* the length of pair (k, k + 1) after its correction
CorrectedSegment(k) == Distance(Corrected(k)[k], Corrected(k)[k + 1])

\* C17: one correction of an adjacent pair at non-zero distance d moves each
\* non-pinned member half of the offset (d - L)/d times the connecting vector:
\* a pair of two free particles is left at distance L, a pair with a pinned
\* member at half its former error.
CorrectionReachesTarget ==
    \A k \in 1..(Len(phys.points) - 1) :
       SegmentOf(k) > 0 =>
          IF BothFree(k)
          THEN Abs(CorrectedSegment(k) - PhysTarget) <= Tolerance
          ELSE Abs(2 * (CorrectedSegment(k) - PhysTarget) - (SegmentOf(k) - PhysTarget))
                  <= 2 * Tolerance

\* velocity variant: a pair of two free particles more than a pixel off the
\* target length is still off it after its correction
CorrectionShortWitness ==
    /\ variant = "velocity"
    /\ phys.ticks >= 1
    /\ \E k \in 1..(Len(phys.points) - 1) :
           /\ BothFree(k)
           /\ Abs(SegmentOf(k) - PhysTarget) > SCALE
           /\ Abs(CorrectedSegment(k) - PhysTarget) > Tolerance

\* C18 (Verlet variant): a frame callback that comes less than 16 ms after
\* the last accepted tick of its connection leaves the chain and the
\* last-update timestamp as they were and requests the next frame, whose
\* handle it stores; an accepted tick comes at least 16 ms after the one
\* before it and records its timestamp.
ThrottleHolds ==
    [][/\ ev'.kind = "throttled" =>
             /\ variant = "verlet"
             /\ now' - comps[ev'.id].lastUpdateRef < THROTTLE_MS
             /\ comps'[ev'.id].points = comps[ev'.id].points
             /\ comps'[ev'.id].lastUpdateRef = comps[ev'.id].lastUpdateRef
             /\ \E r \in raf' : r.conn = ev'.id /\ r.handle = comps'[ev'.id].animationRef
       /\ (ev'.kind = "tick" /\ variant = "verlet") =>
             /\ now' - comps[ev'.id].lastUpdateRef >= THROTTLE_MS
             /\ comps'[ev'.id].lastUpdateRef = now']_vars

\* a frame was throttled after a tick of the same connection had been accepted
ThrottledWitness ==
    /\ ev.kind = "throttled"
    /\ ev.id \in DOMAIN comps
    /\ life[ev.id].ticks >= 1
    /\ now - comps[ev.id].lastUpdateRef < THROTTLE_MS
    /\ Pending(raf, ev.id) # {}

ReferentialIntegrity ==
    \A i \in 1..Len(connections) :
       /\ connections[i].fromNoteId \in NoteIds(notes)
       /\ connections[i].toNoteId \in NoteIds(notes)

\* completeConnection has just created a connection from a note that was
\* deleted while it was remembered in connectingFrom
DanglingWitness ==
    /\ ev.kind = "completeConnection"
    /\ connectingFrom = 0
    /\ \E i \in 1..Len(connections) :
          /\ connections[i].fromNoteId \notin NoteIds(notes)
          /\ connections[i].toNoteId = ev.id
          /\ ev.id \in NoteIds(notes)

\* the two ends of a connection, as a set
Ends(conn) == {conn.fromNoteId, conn.toNoteId}

\* C21: no connection joins a note to itself and no two connections join the
\* same two notes, in either direction; a completeConnection for two notes
\* that are already connected adds nothing; and every completeConnection,
\* whether it adds a connection or not, leaves connectingFrom null.
ConnectionUnique ==
    /\ [](\A i \in 1..Len(connections) :
             /\ connections[i].fromNoteId # connections[i].toNoteId
             /\ \A j \in 1..Len(connections) :
                    Ends(connections[i]) = Ends(connections[j]) => i = j)
    /\ [][ev'.kind = "completeConnection" =>
             /\ connectingFrom' = 0
             /\ Exists(connections, connectingFrom, ev'.id) => connections' = connections]_vars

\* the one connection of the store runs from the note on which a
\* completeConnection has just been made: the completion came from the other
\* end of that connection and added nothing
RepeatedPairWitness ==
    /\ ev.kind = "completeConnection"
    /\ connectingFrom = 0
    /\ usedConns = 1
    /\ Len(connections) = 1
    /\ connections[1].fromNoteId = ev.id
    /\ connections[1].toNoteId \in NoteIds(notes)

\* (vy + 0.5) * 0.98
NextVy(vy) == RDiv((vy + (5 * SCALE) \div 10) * 98, 100)

RECURSIVE VyAfter(_)
\* vy_k = (vy_(k-1) + 0.5) * 0.98, vy_0 = 0
VyAfter(k) == IF k = 0 THEN 0 ELSE NextVy(VyAfter(k - 1))

\* every vx is 0, the pinned particles have no velocity and the interior
\* particles have the vertical velocity vy
VelocitiesAre(chain, vy) ==
    \A i \in 1..Len(chain) :
       /\ chain[i].vx = 0
       /\ chain[i].vy = IF i = 1 \/ i = Len(chain) THEN 0 ELSE vy

\* C22 (velocity variant): in every reachable state every particle has
\* vx = 0 and the interior particles of a chain share one vy, which is 0 for
\* a seeded chain and which each tick takes from vy to (vy + 0.5) * 0.98,
\* whatever the corrections of the tick and the moves of the notes did.
VelocityRecurrence ==
    /\ [](variant = "velocity" =>
            \A c \in DOMAIN comps :
               /\ \E vy \in {comps[c].points[i].vy : i \in 2..Len(comps[c].points)} \cup {0} :
                      VelocitiesAre(comps[c].points, vy)
               /\ life[c].ticks = 0 => VelocitiesAre(comps[c].points, 0))
    /\ [][(variant = "velocity" /\ ev'.kind = "tick") =>
             \A i \in Interior :
                comps'[ev'.id].points[i].vy = NextVy(comps[ev'.id].points[i].vy)]_vars

\* a chain of the velocity variant between two notes that are apart, one of
\* them moved, has been ticked twice: its interior particles have vy_2
VelocityRecurrenceWitness ==
    /\ variant = "velocity"
    /\ ev.kind = "tick"
    /\ ev.start # ev.end
    /\ life[ev.id].ticks = 2
    /\ \E i \in 1..Len(notes) : notes[i].position # Origin
    /\ VelocitiesAre(comps[ev.id].points, VyAfter(2))
    /\ VyAfter(2) > VyAfter(1)

\* the same over a long run of a chain between notes at rest: after k ticks
\* the interior particles have vy_k
VelocityAfterTicks ==
    variant = "velocity" => VelocitiesAre(phys.points, VyAfter(phys.ticks))

\* C23: right after bringToFront(id), and right after addNote for the new
\* note, the zIndex of that note is strictly greater than the zIndex of every
\* other note, whatever addNote, bringToFront, deleteNote and reloads came
\* before; maxZIndex is never below the largest zIndex of the notes.
FrontOnTop ==
    /\ ev.kind \in {"bringToFront", "addNote"} =>
          \A i \in 1..Len(notes) :
             notes[i].id # ev.id => Find(notes, ev.id).zIndex > notes[i].zIndex
    /\ \A i \in 1..Len(notes) : maxZIndex >= notes[i].zIndex

\* after a reload a note was brought to front and another note is still at
\* least as high
BuriedWitness ==
    /\ ev.kind = "bringToFront"
    /\ budget.reloads < MaxReloads
    /\ \E i \in 1..Len(notes) :
          notes[i].id # ev.id /\ notes[i].zIndex >= Find(notes, ev.id).zIndex
====
